---- MODULE Spec2Model ----
(***************************************************************************)
(* Model of streamlit_rover_control.py: the MQTTController class (its      *)
(* connect / disconnect / send_command methods and its on_connect /        *)
(* on_message callbacks), the movement button handlers that call it, and   *)
(* the paho-mqtt client it drives (network loop thread, socket, broker     *)
(* session), which is the environment that invokes the callbacks.          *)
(***************************************************************************)
EXTENDS Integers, Sequences, FiniteSets, TLC

\* ---------------------------------------------------------------- bounds
MaxDelivered == 3    \* inbound messages delivered in one run
MaxPublished == 2    \* commands published in one run
MaxTicks == 4        \* clock ticks in one run
TickMs == 125        \* milliseconds per clock tick
MaxStamp == 2        \* largest source timestamp carried by a status payload

\* ------------------------------------------------------- program constants
SleepAfterSendMs == 500     \* time.sleep(0.5) after a successful send

MQTT_TOPIC_COMMAND == "esp32car/command"
MQTT_TOPIC_STATUS == "esp32car/status"

\* the command words the movement buttons send
Commands == {"FORWARD", "LEFT", "STOP", "RIGHT", "BACKWARD"}
\* send_command's car_id parameter; no caller passes one, so the default
CarIds == {"ALL"}
\* CONNACK return codes: 0 accepted, 3 server unavailable, 5 not authorised
ReturnCodes == {0, 3, 5}

\* ------------------------------------------------------------ wire payloads
\* Raw bytes arriving on the status topic, by what decoding makes of them.
Payloads ==
    [kind : {"object"}, car_id : {"CAR1"}, timestamp : 1..MaxStamp]
    \cup {[kind |-> "invalid_json"], [kind |-> "invalid_utf8"]}

\* the empty dict {}
EmptyDict == [k \in {} |-> 0]

\* msg.payload.decode(): raises UnicodeDecodeError on bytes that are not UTF-8
decode(p) ==
    IF p.kind = "invalid_utf8" THEN [ok |-> FALSE, text |-> p]
                               ELSE [ok |-> TRUE, text |-> p]

\* json.loads(text): raises on text that is not JSON, else the decoded dict
json_loads(t) ==
    IF t.kind = "object"
        THEN [ok |-> TRUE,
              value |-> [car_id |-> t.car_id, timestamp |-> t.timestamp]]
        ELSE [ok |-> FALSE, value |-> EmptyDict]

\* the try-block expression json.loads(msg.payload.decode())
Parse(p) ==
    IF decode(p).ok THEN json_loads(decode(p).text)
                    ELSE [ok |-> FALSE, value |-> EmptyDict]

\* status.get('timestamp', 0)
SourceTimestamp(s) == IF "timestamp" \in DOMAIN s THEN s.timestamp ELSE 0

\* ------------------------------------------------------------------- state
VARIABLES
    connected,       \* self.connected
    last_status,     \* self.last_status
    status_queue,    \* self.status_queue (contents, oldest first)
    loop_running,    \* the client's network loop thread is alive
    sock,            \* the client's socket: "none", "connecting", "up"
    subscribed,      \* the broker session holds the status subscription
    published,       \* payloads handed to the broker by client.publish
    now,             \* time.time() in milliseconds
    ret,             \* return value of the last send_command call
    notice,          \* the last st.success/warning/error the controller showed
    requested,       \* the operator's last explicit connect()/disconnect()
    refused,         \* a CONNACK refused authorisation since that request
    delivered        \* the payloads the loop thread handed to on_message

vars == <<connected, last_status, status_queue, loop_running, sock,
          subscribed, published, now, ret, notice, requested, refused,
          delivered>>

telemetry == <<last_status, status_queue>>
inbound == <<last_status, status_queue, delivered>>
commands == <<published, ret>>
session == <<connected, loop_running, sock, subscribed, requested, refused>>

\* MQTTController.__init__
Init ==
    /\ connected = FALSE
    /\ last_status = EmptyDict
    /\ status_queue = << >>
    /\ loop_running = FALSE
    /\ sock = "none"
    /\ subscribed = FALSE
    /\ published = << >>
    /\ now = 0
    /\ ret = "none"
    /\ notice = "none"
    /\ requested = "none"
    /\ refused = FALSE
    /\ delivered = << >>

\* ------------------------------------------------------------- the client
\* The payload send_command builds and json.dumps serialises.
Message(command, car_id) ==
    [command |-> command, car_id |-> car_id, timestamp |-> now]

\* client.publish: MQTT_ERR_SUCCESS with a socket, MQTT_ERR_NO_CONN without
PublishSucceeds == sock # "none"

\* send_command as it would be without its connected check
send_command_unguarded(command, car_id) ==
    /\ PublishSucceeds => Len(published) < MaxPublished
    /\ IF PublishSucceeds
        THEN /\ published' = Append(published, Message(command, car_id))
             /\ ret' = "True"
             /\ UNCHANGED notice
        ELSE /\ notice' = "send_failed"
             /\ ret' = "False"
             /\ UNCHANGED published

\* MQTTController.send_command, without the caller's clock
send_command(command, car_id) ==
    /\ (connected /\ PublishSucceeds) => Len(published) < MaxPublished
    /\ IF ~connected
        THEN /\ notice' = "not_connected"
             /\ ret' = "False"
             /\ UNCHANGED published
        ELSE IF PublishSucceeds
            THEN /\ published' = Append(published, Message(command, car_id))
                 /\ ret' = "True"
                 /\ UNCHANGED notice
            ELSE /\ notice' = "send_failed"
                 /\ ret' = "False"
                 /\ UNCHANGED published

\* a call of send_command by any holder of the controller
SendCommand(command, car_id) ==
    /\ send_command(command, car_id)
    /\ UNCHANGED <<inbound, session, now>>

\* a movement button handler: send_command, and on success sleep 0.5 s
ButtonPress(command) ==
    /\ now + SleepAfterSendMs <= MaxTicks * TickMs
    /\ send_command(command, "ALL")
    /\ now' = IF ret' = "True" THEN now + SleepAfterSendMs ELSE now
    /\ UNCHANGED <<inbound, session>>

\* MQTTController.connect: client.connect (may raise) then client.loop_start
Connect(reachable) ==
    /\ requested' = "connect"
    /\ refused' = FALSE
    /\ subscribed' = FALSE
    /\ IF reachable
        THEN /\ sock' = "connecting"
             /\ loop_running' = TRUE
             /\ UNCHANGED notice
        ELSE /\ sock' = "none"
             /\ notice' = "connection_error"
             /\ UNCHANGED loop_running
    /\ UNCHANGED <<connected, inbound, commands, now>>

\* disconnect as it would be if it also reset the held telemetry
Disconnect_clearing ==
    /\ requested' = "disconnect"
    /\ IF connected
        THEN /\ loop_running' = FALSE
             /\ sock' = "none"
             /\ subscribed' = FALSE
             /\ connected' = FALSE
             /\ last_status' = EmptyDict
             /\ status_queue' = << >>
        ELSE UNCHANGED <<loop_running, sock, subscribed, connected, telemetry>>
    /\ UNCHANGED <<refused, delivered, commands, now, notice>>

\* MQTTController.disconnect
Disconnect ==
    /\ requested' = "disconnect"
    /\ IF connected
        THEN /\ loop_running' = FALSE
             /\ sock' = "none"
             /\ subscribed' = FALSE
             /\ connected' = FALSE
        ELSE UNCHANGED <<loop_running, sock, subscribed, connected>>
    /\ UNCHANGED <<refused, inbound, commands, now, notice>>

\* MQTTController.on_connect, called by the loop thread on a CONNACK
OnConnect(rc) ==
    /\ loop_running
    /\ sock = "connecting"
    /\ IF rc = 0
        THEN /\ connected' = TRUE
             /\ notice' = "connected"
             /\ subscribed' = TRUE
             /\ sock' = "up"
             /\ UNCHANGED refused
        ELSE /\ connected' = FALSE
             /\ notice' = "connect_failed"
             /\ sock' = "none"
             /\ refused' = (refused \/ rc = 5)
             /\ UNCHANGED subscribed
    /\ UNCHANGED <<loop_running, requested, inbound, commands, now>>

\* on_message as it would be without its try/except: the parse error
\* escapes into the loop thread, which ends
OnMessage_uncaught(payload) ==
    /\ loop_running
    /\ sock = "up"
    /\ subscribed
    /\ Len(delivered) < MaxDelivered
    /\ delivered' = Append(delivered, payload)
    /\ IF Parse(payload).ok
        THEN /\ last_status' = Parse(payload).value
             /\ status_queue' = Append(status_queue, Parse(payload).value)
             /\ UNCHANGED <<notice, session>>
        ELSE /\ loop_running' = FALSE
             /\ UNCHANGED <<telemetry, notice, connected, sock, subscribed,
                            requested, refused>>
    /\ UNCHANGED <<commands, now>>

\* MQTTController.on_message, called by the loop thread on a status message
OnMessage(payload) ==
    /\ loop_running
    /\ sock = "up"
    /\ subscribed
    /\ Len(delivered) < MaxDelivered
    /\ delivered' = Append(delivered, payload)
    /\ IF Parse(payload).ok
        THEN /\ last_status' = Parse(payload).value
             /\ status_queue' = Append(status_queue, Parse(payload).value)
             /\ UNCHANGED notice
        ELSE /\ notice' = "status_error"
             /\ UNCHANGED telemetry
    /\ UNCHANGED <<session, commands, now>>

\* The transport fails or the broker drops the session. No on_disconnect
\* callback is registered, so nothing of the controller runs.
BrokerDrop ==
    /\ sock # "none"
    /\ sock' = "none"
    /\ subscribed' = FALSE
    /\ UNCHANGED <<connected, loop_running, requested, refused, inbound,
                   commands, now, notice>>

\* The loop thread started by loop_start reconnects a lost or refused
\* connection by itself until loop_stop.
LoopReconnect ==
    /\ loop_running
    /\ sock = "none"
    /\ sock' = "connecting"
    /\ UNCHANGED <<connected, loop_running, subscribed, requested, refused,
                   inbound, commands, now, notice>>

\* time passes
Tick ==
    /\ now + TickMs <= MaxTicks * TickMs
    /\ now' = now + TickMs
    /\ UNCHANGED <<session, inbound, commands, notice>>

\* the connection lifecycle: the operator's requests and the client's events
Lifecycle ==
    \/ \E reachable \in BOOLEAN : Connect(reachable)
    \/ Disconnect
    \/ \E rc \in ReturnCodes : OnConnect(rc)
    \/ BrokerDrop
    \/ LoopReconnect

\* the inbound path: the lifecycle and the status messages
NextTelemetry ==
    \/ Lifecycle
    \/ \E payload \in Payloads : OnMessage(payload)

\* the outbound path: the lifecycle, the clock and the command submissions
NextCommands ==
    \/ Lifecycle
    \/ \E command \in Commands, car_id \in CarIds : SendCommand(command, car_id)
    \/ \E command \in Commands : ButtonPress(command)
    \/ Tick

SpecTelemetry == Init /\ [][NextTelemetry]_vars

SpecCommands == Init /\ [][NextCommands]_vars

\* -------------------------------------------------------------- properties
Malformed == {p \in Payloads : ~Parse(p).ok}
WellFormed == {p \in Payloads : Parse(p).ok}

\* the values on_message parsed out of a log of delivered payloads, in order
RECURSIVE ParsedOf(_)
ParsedOf(log) ==
    IF log = << >> THEN << >>
    ELSE IF Parse(Head(log)).ok
        THEN <<Parse(Head(log)).value>> \o ParsedOf(Tail(log))
        ELSE ParsedOf(Tail(log))

\* a step that is a call of send_command, direct or from a button
Submits ==
    \/ \E command \in Commands, car_id \in CarIds : SendCommand(command, car_id)
    \/ \E command \in Commands : ButtonPress(command)

\* C1: a command submitted while connected is False returns False with the
\* not-connected warning and publishes nothing, and no step of any kind
\* publishes while connected is False (nothing retries the command).
C1_NotConnectedRejected ==
    [][~connected =>
          /\ published' = published
          /\ Submits => (ret' = "False" /\ notice' = "not_connected"
                         /\ now' = now)]_vars

\* C1 witness: a submission was rejected as not connected although the
\* client had a socket it could have written the command to.
C1_Witness ==
    /\ ~connected
    /\ sock = "connecting"
    /\ ret = "False"
    /\ notice = "not_connected"
    /\ published = << >>

\* C2: once disconnect() has returned and until connect() is requested
\* again, the network loop is stopped and the state is not CONNECTED.
C2_DisconnectLeavesNoBackgroundWork ==
    requested = "disconnect" => (~loop_running /\ ~connected)

\* C3: a transport error or broker drop in state CONNECTED takes the state
\* out of CONNECTED.
C3_DropLeavesConnected ==
    [][(connected /\ BrokerDrop) => ~connected']_vars

\* C4: the source timestamp of the held snapshot never decreases.
C4_HeldTimestampNeverDecreases ==
    [][SourceTimestamp(last_status') >= SourceTimestamp(last_status)]_vars

\* C5: the delivery of a malformed payload changes neither the held
\* snapshot nor the status queue and leaves the receive path running, and
\* the delivery of a well-formed payload, whatever came before it, is
\* ingested.
C5_MalformedDropped ==
    [][/\ \A p \in Malformed :
              delivered' = Append(delivered, p) =>
                  UNCHANGED <<last_status, status_queue, loop_running, sock,
                              subscribed, connected>>
       /\ \A p \in WellFormed :
              delivered' = Append(delivered, p) =>
                  /\ last_status' = Parse(p).value
                  /\ status_queue' = Append(status_queue, Parse(p).value)
       /\ (loop_running /\ sock = "up" /\ subscribed
              /\ Len(delivered) < MaxDelivered)
              => \A p \in Payloads : ENABLED OnMessage(p)]_vars

\* C5 witness: a malformed payload was delivered and the well-formed one
\* delivered after it is the held snapshot.
C5_Witness ==
    /\ Len(delivered) = 3
    /\ delivered[1] \in WellFormed
    /\ delivered[2] \in Malformed
    /\ delivered[3] \in WellFormed
    /\ Len(status_queue) = 2
    /\ last_status = Parse(delivered[3]).value
    /\ notice = "status_error"

\* C6: no two published commands of the same kind other than STOP for the
\* same vehicle are less than 200 ms apart.
C6_Debounced ==
    \A i, j \in DOMAIN published :
        (/\ i < j
         /\ published[i].command = published[j].command
         /\ published[i].car_id = published[j].car_id
         /\ published[i].command # "STOP")
        => published[j].timestamp - published[i].timestamp >= 200

\* C7: every published payload carries a sequence field; per vehicle the
\* first is 1 and each later one is greater than the one before.
C7_SequenceNumbers ==
    \A i \in DOMAIN published :
        /\ "sequence" \in DOMAIN published[i]
        /\ \A j \in DOMAIN published :
               (j < i /\ published[j].car_id = published[i].car_id)
               => published[j].sequence < published[i].sequence
        /\ (\A j \in 1..(i - 1) : published[j].car_id # published[i].car_id)
               => published[i].sequence = 1

\* C8: after a CONNACK refused authorisation, and until connect() is
\* requested again, the state is not CONNECTED and no connect attempt is
\* in flight.
C8_AuthRejectedStaysDisconnected ==
    refused => (~connected /\ sock = "none")

\* C9: whenever connected is True the broker session holds the
\* status-topic subscription, and a refused connect subscribes to nothing.
C9_ConnectedImpliesSubscribed ==
    connected => subscribed

\* C10: status_queue holds exactly the parsed values of the delivered
\* payloads that parse, in delivery order, whatever connects and
\* disconnects happened, and last_status is the last of them, or the empty
\* dict when there is none.
C10_QueueIsParsedHistory ==
    /\ status_queue = ParsedOf(delivered)
    /\ last_status = IF status_queue = << >> THEN EmptyDict
                     ELSE status_queue[Len(status_queue)]

\* C10 witness: two parsed payloads and a malformed one were delivered, and
\* the queue still holds both after disconnect().
C10_Witness ==
    /\ requested = "disconnect"
    /\ ~connected
    /\ ~loop_running
    /\ Len(status_queue) = 2
    /\ Len(delivered) = 3

====
